---- MODULE Spec2Model ----
(***************************************************************************)
(* Endpoint application of aws-smithy-http (src/rust-runtime/              *)
(* aws-smithy-http/src/endpoint.rs): EndpointPrefix::new, apply_endpoint   *)
(* and merge_paths, over the http crate's Uri and Authority values.        *)
(*                                                                         *)
(* A string is a sequence of one-character strings.  A Uri is the record   *)
(* [scheme, authority, pq] of the http crate's three parts: scheme "" is   *)
(* "no scheme", authority <<>> is "no authority", pq is the data of the    *)
(* PathAndQuery (path, then '?' and the query when there is one).          *)
(***************************************************************************)
EXTENDS Naturals, Sequences, FiniteSets

VARIABLES
    input,      \* the string the caller passes to EndpointPrefix::new
    prefix,     \* Option<EndpointPrefix> the caller holds
    prefixRes,  \* what EndpointPrefix::new returned (NotCalled before)
    endpoint,   \* the resolved endpoint Uri (immutable input)
    uri,        \* the request Uri, mutated in place by apply_endpoint
    calls,      \* number of apply_endpoint calls made on uri
    last,       \* the last apply_endpoint call: argument, uri before, result
    merged      \* Option<string>: what a direct merge_paths call returned

vars == <<input, prefix, prefixRes, endpoint, uri, calls, last, merged>>

----------------------------------------------------------------------------
(* Bounds of the model *)

MaxPrefixLen == 2
MaxAuthLen == 2
MaxEndpointPathLen == 2
MaxRequestPathLen == 2
MaxCalls == 2

----------------------------------------------------------------------------
(* Strings and options *)

StringsUpTo(chars, n) == UNION {[1..k -> chars] : k \in 0..n}

None == [some |-> FALSE, v |-> <<>>]
Some(x) == [some |-> TRUE, v |-> x]

\* Faulty variants of the two strips: the slash is kept
strip_suffix_kept(s) == s

strip_prefix_kept(s) == s

\* Rust str::strip_suffix('/').unwrap_or(s) and str::strip_prefix('/').unwrap_or(s)
strip_suffix_or(s) ==
    IF Len(s) > 0 /\ s[Len(s)] = "/" THEN SubSeq(s, 1, Len(s) - 1) ELSE s

strip_prefix_or(s) ==
    IF Len(s) > 0 /\ s[1] = "/" THEN SubSeq(s, 2, Len(s)) ELSE s

----------------------------------------------------------------------------
(* http::uri::Authority::from_str, as called by EndpointPrefix::new and     *)
(* apply_endpoint.  The scan keeps the parser's counters; a byte is one of  *)
(* the delimiters '/', '?', '#', one of ':', '[', ']', '@', '%', a byte that *)
(* is no URI character (here the space), or an ordinary host byte.          *)

NotUriChars == {" "}

ScanStart ==
    [colon_cnt |-> 0, start_bracket |-> FALSE, end_bracket |-> FALSE,
     has_percent |-> FALSE, at_sign_pos |-> 0, end |-> 0, err |-> ""]

RECURSIVE AuthorityScan(_, _, _)
AuthorityScan(s, i, st) ==
    IF i > Len(s) THEN [st EXCEPT !.end = Len(s)]
    ELSE LET b == s[i] IN
      IF b \in {"/", "?", "#"} THEN [st EXCEPT !.end = i - 1]
      ELSE IF b = ":" THEN
          IF st.colon_cnt >= 8 THEN [st EXCEPT !.err = "InvalidAuthority"]
          ELSE AuthorityScan(s, i + 1, [st EXCEPT !.colon_cnt = @ + 1])
      ELSE IF b = "[" THEN
          IF st.has_percent \/ st.start_bracket
          THEN [st EXCEPT !.err = "InvalidAuthority"]
          ELSE AuthorityScan(s, i + 1, [st EXCEPT !.start_bracket = TRUE])
      ELSE IF b = "]" THEN
          IF ~st.start_bracket \/ st.end_bracket
          THEN [st EXCEPT !.err = "InvalidAuthority"]
          ELSE AuthorityScan(s, i + 1,
                 [st EXCEPT !.end_bracket = TRUE, !.colon_cnt = 0,
                            !.has_percent = FALSE])
      ELSE IF b = "@" THEN
          AuthorityScan(s, i + 1,
             [st EXCEPT !.at_sign_pos = i, !.colon_cnt = 0,
                        !.has_percent = FALSE])
      ELSE IF b = "%" THEN
          AuthorityScan(s, i + 1, [st EXCEPT !.has_percent = TRUE])
      ELSE IF b \in NotUriChars THEN [st EXCEPT !.err = "InvalidUriChar"]
      ELSE AuthorityScan(s, i + 1, st)

\* Authority::parse: the scan, then the checks on what it counted.
AuthorityParse(s) ==
    LET st == AuthorityScan(s, 1, ScanStart) IN
    IF st.err # "" THEN st
    ELSE IF st.start_bracket # st.end_bracket
        THEN [st EXCEPT !.err = "InvalidAuthority"]
    ELSE IF st.colon_cnt > 1 THEN [st EXCEPT !.err = "InvalidAuthority"]
    ELSE IF st.end > 0 /\ st.at_sign_pos = st.end
        THEN [st EXCEPT !.err = "InvalidAuthority"]
    ELSE IF st.has_percent THEN [st EXCEPT !.err = "InvalidAuthority"]
    ELSE st

\* Authority::from_str: "" when s is an authority, the parse diagnostic otherwise.
AuthorityFromStr(s) ==
    IF s = <<>> THEN "Empty"
    ELSE LET st == AuthorityParse(s) IN
         IF st.err # "" THEN st.err
         ELSE IF st.end # Len(s) THEN "InvalidUriChar"
         ELSE ""

IsAuthority(s) == AuthorityFromStr(s) = ""

----------------------------------------------------------------------------
(* http::Uri and http::uri::PathAndQuery accessors used by endpoint.rs *)

\* index of the first '?' of a PathAndQuery's data, 0 when it has no query
QueryIndex(d) ==
    IF \E i \in 1..Len(d) : d[i] = "?"
    THEN CHOOSE i \in 1..Len(d) : d[i] = "?" /\ \A j \in 1..(i - 1) : d[j] # "?"
    ELSE 0

\* PathAndQuery::path: the data before the query, "/" when that is empty
pq_path(d) ==
    LET p == IF QueryIndex(d) = 0 THEN d ELSE SubSeq(d, 1, QueryIndex(d) - 1)
    IN IF p = <<>> THEN <<"/">> ELSE p

\* PathAndQuery::query
pq_query(d) ==
    IF QueryIndex(d) = 0 THEN None ELSE Some(SubSeq(d, QueryIndex(d) + 1, Len(d)))

\* PathAndQuery::as_str: the data, "/" when it is empty
pq_as_str(d) == IF d = <<>> THEN <<"/">> ELSE d

\* Uri::path: "" only for a Uri with neither a scheme nor path data
uri_path(u) == IF u.pq # <<>> \/ u.scheme # "" THEN pq_path(u.pq) ELSE <<>>

\* Uri::path_and_query: None for an authority-form Uri
uri_path_and_query(u) ==
    IF u.scheme # "" \/ u.authority = <<>> THEN Some(u.pq) ELSE None

\* Uri::authority and Uri::scheme
uri_authority(u) == IF u.authority = <<>> THEN None ELSE Some(u.authority)

uri_scheme(u) == IF u.scheme = "" THEN None ELSE Some(u.scheme)

\* PathAndQuery::from_str as the builder's path_and_query(..) runs it: a byte
\* that is no URI character is an error, a '#' cuts the fragment off.
pq_from_str(s) ==
    LET cut == IF \E i \in 1..Len(s) : s[i] = "#"
               THEN (CHOOSE i \in 1..Len(s) :
                        s[i] = "#" /\ \A j \in 1..(i - 1) : s[j] # "#") - 1
               ELSE Len(s)
        data == SubSeq(s, 1, cut)
    IN IF \E i \in 1..Len(data) : data[i] \in NotUriChars
       THEN [err |-> "InvalidUriChar", data |-> <<>>]
       ELSE [err |-> "", data |-> data]

\* A Uri value the http crate can hold: its authority parsed as one, its path
\* and query hold URI characters only, a scheme comes with an authority, and a
\* Uri without a scheme has an authority or a path, not both.
WellFormedUri(u) ==
    /\ u.authority # <<>> => IsAuthority(u.authority)
    /\ pq_from_str(u.pq) = [err |-> "", data |-> u.pq]
    /\ u.scheme # "" => u.authority # <<>>
    /\ u.scheme = "" => (u.authority = <<>> \/ u.pq = <<>>)

----------------------------------------------------------------------------
(* InvalidEndpointError (endpoint/error.rs): one value per constructor *)

Ok == [kind |-> "Ok", authority |-> <<>>, source |-> ""]

NotCalled == [kind |-> "NotCalled", authority |-> <<>>, source |-> ""]

failed_to_construct_authority(authority, source) ==
    [kind |-> "FailedToConstructAuthority", authority |-> authority,
     source |-> source]

endpoint_must_have_scheme ==
    [kind |-> "EndpointMustHaveScheme", authority |-> <<>>, source |-> ""]

failed_to_construct_uri(source) ==
    [kind |-> "FailedToConstructUri", authority |-> <<>>, source |-> source]

----------------------------------------------------------------------------
(* EndpointPrefix *)

\* Faulty variant: the prefix is kept without being parsed
EndpointPrefix_new_unchecked(s) == [res |-> Ok, prefix |-> Some(s)]

\* Faulty variant: validated with the parser that lets the empty string through
EndpointPrefix_new_allow_empty(s) ==
    LET st == AuthorityParse(s) IN
    IF st.err = "" /\ st.end = Len(s)
    THEN [res |-> Ok, prefix |-> Some(s)]
    ELSE [res |-> failed_to_construct_authority(s, "InvalidAuthority"),
          prefix |-> None]

\* Faulty variant: the failure is reported with the URI-build constructor
EndpointPrefix_new_uri_error(s) ==
    LET err == AuthorityFromStr(s) IN
    IF err = ""
    THEN [res |-> Ok, prefix |-> Some(s)]
    ELSE [res |-> failed_to_construct_uri(err), prefix |-> None]

\* EndpointPrefix::new: the prefix is kept exactly when it parses as an authority
EndpointPrefix_new(s) ==
    LET err == AuthorityFromStr(s) IN
    IF err = ""
    THEN [res |-> Ok, prefix |-> Some(s)]
    ELSE [res |-> failed_to_construct_authority(s, err), prefix |-> None]

\* EndpointPrefix::as_str
as_str(p) == p.v

----------------------------------------------------------------------------
(* merge_paths *)

\* the endpoint's query, which merge_paths only warns about
endpoint_query(ep) ==
    LET pq == uri_path_and_query(ep) IN
    IF pq.some THEN pq_query(pq.v) ELSE None

\* uri.path_and_query().map(|pq| pq.as_str()).unwrap_or("")
uri_path_and_query_str(u) ==
    LET pq == uri_path_and_query(u) IN
    IF pq.some THEN pq_as_str(pq.v) ELSE <<>>

\* Faulty variant: no branch on the empty endpoint path
join_paths_always(endpoint_path, uri_pq) ==
    strip_suffix_or(endpoint_path) \o <<"/">> \o strip_prefix_or(uri_pq)

\* the branch on the endpoint's path and the format!("{}/{}", ..)
join_paths(endpoint_path, uri_pq) ==
    IF endpoint_path = <<>>
    THEN uri_pq
    ELSE strip_suffix_or(endpoint_path) \o <<"/">> \o strip_prefix_or(uri_pq)

\* Faulty variant: the endpoint's query is appended instead of dropped
merge_paths_keep_query(ep, u) ==
    LET q == endpoint_query(ep)
        pq == join_paths(uri_path(ep), uri_path_and_query_str(u))
    IN [pq |-> IF q.some THEN pq \o <<"?">> \o q.v ELSE pq,
        warned |-> q.some]

\* merge_paths: the merged path and query, and whether the warning was logged
merge_paths(ep, u) ==
    [pq |-> join_paths(uri_path(ep), uri_path_and_query_str(u)),
     warned |-> endpoint_query(ep).some]

----------------------------------------------------------------------------
(* apply_endpoint *)

\* prefix.map(|p| p.0.as_str()).unwrap_or("")
prefix_str(p) == IF p.some THEN as_str(p) ELSE <<>>

\* endpoint.authority().as_ref().map(|auth| auth.as_str()).unwrap_or("")
endpoint_authority(ep) ==
    LET a == uri_authority(ep) IN IF a.some THEN a.v ELSE <<>>

\* Faulty variant: the prefix is appended after the authority
compose_authority_suffixed(p, authority) ==
    IF p # <<>> THEN authority \o p ELSE authority

\* the prefix goes first, nothing is put between it and the authority
compose_authority(p, authority) ==
    IF p # <<>> THEN p \o authority ELSE authority

\* Faulty variant: a missing scheme is defaulted
endpoint_scheme_defaulted(ep) ==
    IF ep.scheme = "" THEN Some("https") ELSE Some(ep.scheme)

\* endpoint.scheme(), None when the endpoint has none
endpoint_scheme(ep) == uri_scheme(ep)

\* Uri::builder().authority(..).scheme(..).path_and_query(..).build()
uri_build(authority, scheme, pq) ==
    LET q == pq_from_str(pq) IN
    [err |-> q.err,
     uri |-> [scheme |-> scheme, authority |-> authority, pq |-> q.data]]

\* Faulty variant: the authority is written to the request Uri before the scheme check
apply_endpoint_partial(u, ep, p) ==
    LET authority == compose_authority(prefix_str(p), endpoint_authority(ep))
        perr == AuthorityFromStr(authority)
        scheme == endpoint_scheme(ep)
        m == merge_paths(ep, u)
        built == uri_build(authority, scheme.v, m.pq)
    IN IF perr # ""
       THEN [res |-> failed_to_construct_authority(authority, perr),
             uri |-> u, warned |-> FALSE]
       ELSE IF ~scheme.some
       THEN [res |-> endpoint_must_have_scheme,
             uri |-> [u EXCEPT !.authority = authority], warned |-> FALSE]
       ELSE IF built.err # ""
       THEN [res |-> failed_to_construct_uri(built.err), uri |-> u,
             warned |-> m.warned]
       ELSE [res |-> Ok, uri |-> built.uri, warned |-> m.warned]

\* apply_endpoint: the result, the request Uri afterwards, the warning
apply_endpoint(u, ep, p) ==
    LET authority == compose_authority(prefix_str(p), endpoint_authority(ep))
        perr == AuthorityFromStr(authority)
        scheme == endpoint_scheme(ep)
        m == merge_paths(ep, u)
        built == uri_build(authority, scheme.v, m.pq)
    IN IF perr # ""
       THEN [res |-> failed_to_construct_authority(authority, perr),
             uri |-> u, warned |-> FALSE]
       ELSE IF ~scheme.some
       THEN [res |-> endpoint_must_have_scheme, uri |-> u, warned |-> FALSE]
       ELSE IF built.err # ""
       THEN [res |-> failed_to_construct_uri(built.err), uri |-> u,
             warned |-> m.warned]
       ELSE [res |-> Ok, uri |-> built.uri, warned |-> m.warned]

----------------------------------------------------------------------------
(* Inputs *)

AuthChars == {"a", ":", "@", "[", "]", "%", " ", "/"}

EndpointAuthChars == {"e", ":", "@"}

\* "[::1]"
Ipv6Loopback == <<"[", ":", ":", "1", "]">>

\* "e:8"
HostPort == <<"e", ":", "8">>

S_foo == <<"/", "f", "o", "o">>
S_foo_slash == <<"/", "f", "o", "o", "/">>
S_bar == <<"/", "b", "a", "r">>
S_bar_rel == <<"b", "a", "r">>
S_bar_x1 == <<"/", "b", "a", "r", "?", "x", "=", "1">>
S_foo_bar == <<"/", "f", "o", "o", "/", "b", "a", "r">>
S_foo_bar_x1 == <<"/", "f", "o", "o", "/", "b", "a", "r", "?", "x", "=", "1">>

Uris(schemes, authorities, pqs) ==
    {u \in [scheme : schemes, authority : authorities, pq : pqs] :
        WellFormedUri(u)}

EndpointPQs ==
    {p \o q : p \in StringsUpTo({"/", "f"}, MaxEndpointPathLen),
              q \in {<<>>, <<"?", "q">>}} \cup {S_foo, S_foo_slash}

RequestPQs ==
    {p \o q : p \in StringsUpTo({"/", "b"}, MaxRequestPathLen),
              q \in {<<>>, <<"?", "x">>}} \cup {S_bar, S_bar_rel, S_bar_x1}

\* path-heavy inputs
PathPrefixInputs == {<<"p", "-">>, <<"p", ":">>}

PathEndpoints == Uris({"", "https"}, {<<>>, <<"e">>, HostPort}, EndpointPQs)

PathRequests == Uris({"", "http"}, {<<>>, <<"r">>}, RequestPQs)

\* authority-heavy inputs
PrefixInputs == StringsUpTo(AuthChars, MaxPrefixLen)

EndpointAuthorities ==
    {a \in StringsUpTo(EndpointAuthChars, MaxAuthLen) : IsAuthority(a)}
        \cup {Ipv6Loopback}

AuthorityEndpoints ==
    Uris({"", "http", "https"}, EndpointAuthorities \cup {<<>>},
         {<<>>, <<"/", "f">>})

AuthorityRequests == Uris({"", "http"}, {<<>>, <<"r">>}, {<<"/", "b">>})

----------------------------------------------------------------------------
(* The state machine *)

NoMerge == [called |-> FALSE, uri |-> [scheme |-> "", authority |-> <<>>, pq |-> <<>>],
            pq |-> <<>>, warned |-> FALSE]

InitWith(inputs, endpoints, requests) ==
    /\ input \in inputs
    /\ endpoint \in endpoints
    /\ uri \in requests
    /\ prefix = None
    /\ prefixRes = NotCalled
    /\ calls = 0
    /\ last = [arg |-> None, uri0 |-> uri, res |-> NotCalled, warned |-> FALSE]
    /\ merged = NoMerge

Init == InitWith(PathPrefixInputs, PathEndpoints, PathRequests)

InitAuthority == InitWith(PrefixInputs, AuthorityEndpoints, AuthorityRequests)

\* the caller builds the operation's prefix, once, before composing
EndpointPrefixNew ==
    /\ prefixRes = NotCalled
    /\ calls = 0
    /\ LET r == EndpointPrefix_new(input) IN
         /\ prefix' = r.prefix
         /\ prefixRes' = r.res
    /\ UNCHANGED <<input, endpoint, uri, calls, last, merged>>

\* the caller applies the endpoint to the request Uri, with the prefix it holds
ApplyEndpoint ==
    /\ calls < MaxCalls
    /\ LET r == apply_endpoint(uri, endpoint, prefix) IN
         /\ uri' = r.uri
         /\ last' = [arg |-> prefix, uri0 |-> uri, res |-> r.res,
                     warned |-> r.warned]
    /\ calls' = calls + 1
    /\ UNCHANGED <<input, prefix, prefixRes, endpoint, merged>>

\* merge_paths on the endpoint and the request Uri as given
MergePaths ==
    /\ ~merged.called
    /\ calls = 0
    /\ LET m == merge_paths(endpoint, uri) IN
         merged' = [called |-> TRUE, uri |-> uri, pq |-> m.pq,
                    warned |-> m.warned]
    /\ UNCHANGED <<input, prefix, prefixRes, endpoint, uri, calls, last>>

Next == EndpointPrefixNew \/ ApplyEndpoint \/ MergePaths

NextAuthority == EndpointPrefixNew \/ ApplyEndpoint

Spec == Init /\ [][Next]_vars

SpecAuthority == InitAuthority /\ [][NextAuthority]_vars

----------------------------------------------------------------------------
(* Properties *)

Applied == calls > 0

Succeeded == Applied /\ last.res.kind = "Ok"

\* the authority string the last call put together
ComposedAuthority == prefix_str(last.arg) \o endpoint.authority

\* C1: on success the request Uri has the endpoint's scheme, and its authority
\* is the prefix immediately followed by the endpoint's authority (the
\* endpoint's authority alone without a prefix), whatever scheme and authority
\* the request had before.
C1_SchemeAndAuthority ==
    Succeeded =>
        /\ uri.scheme = endpoint.scheme
        /\ uri.scheme # ""
        /\ uri.authority =
             (IF last.arg.some THEN last.arg.v ELSE <<>>) \o endpoint.authority

C1_Witness ==
    /\ Succeeded
    /\ last.arg.some
    /\ last.uri0.scheme = "http"
    /\ last.uri0.authority = <<"r">>
    /\ endpoint.scheme = "https"
    /\ uri.scheme = "https"
    /\ uri.authority = last.arg.v \o endpoint.authority

\* e with at most one trailing '/' removed, then "/", then r with at most one
\* leading '/' removed; r itself when e is empty
ExpectedMerge(e, r) ==
    IF Len(e) = 0 THEN r
    ELSE (IF e[Len(e)] = "/" THEN SubSeq(e, 1, Len(e) - 1) ELSE e)
         \o <<"/">>
         \o (IF Len(r) > 0 /\ r[1] = "/" THEN Tail(r) ELSE r)

\* one row of the path-merge table, for a merge of (e, r) that gave out
MergeRow(e, r, out, row) == (e = row[1] /\ r = row[2]) => out = row[3]

MergeTable(e, r, out) ==
    /\ MergeRow(e, r, out, <<<<>>, S_bar, S_bar>>)
    /\ MergeRow(e, r, out, <<S_foo, S_bar, S_foo_bar>>)
    /\ MergeRow(e, r, out, <<S_foo_slash, S_bar, S_foo_bar>>)
    /\ MergeRow(e, r, out, <<S_foo, S_bar_rel, S_foo_bar>>)
    /\ MergeRow(e, r, out, <<S_foo, S_bar_x1, S_foo_bar_x1>>)
    /\ MergeRow(e, r, out, <<S_foo, <<>>, S_foo_slash>>)

\* C2: the merge of endpoint path e and request path-and-query r is r when e
\* is empty, otherwise e less one trailing '/', "/", r less one leading '/';
\* the rows of the table come out as listed; and after a successful
\* apply_endpoint the request's path-and-query is that merge of the endpoint's
\* path with the request's path-and-query before the call.
C2_PathMerge ==
    /\ merged.called =>
         LET e == uri_path(endpoint)
             r == uri_path_and_query_str(merged.uri)
         IN merged.pq = ExpectedMerge(e, r) /\ MergeTable(e, r, merged.pq)
    /\ Succeeded =>
         LET e == uri_path(endpoint)
             r == uri_path_and_query_str(last.uri0)
             out == uri_path_and_query_str(uri)
         IN out = ExpectedMerge(e, r) /\ MergeTable(e, r, out)

C2_Witness ==
    /\ Succeeded
    /\ uri_path(endpoint) = S_foo_slash
    /\ uri_path_and_query_str(last.uri0) = S_bar_x1
    /\ uri_path_and_query_str(uri) = S_foo_bar_x1
    /\ merged.called
    /\ merged.pq = S_foo_bar_x1

RECURSIVE StripAllTrailing(_)
StripAllTrailing(s) ==
    IF Len(s) > 0 /\ s[Len(s)] = "/"
    THEN StripAllTrailing(SubSeq(s, 1, Len(s) - 1)) ELSE s

RECURSIVE StripAllLeading(_)
StripAllLeading(s) ==
    IF Len(s) > 0 /\ s[1] = "/" THEN StripAllLeading(Tail(s)) ELSE s

\* exactly one '/' between the endpoint part and the request part
OneSlashJunction(e, r, out) ==
    out = StripAllTrailing(e) \o <<"/">> \o StripAllLeading(r)

EndsInTwoSlashes(s) ==
    Len(s) >= 2 /\ s[Len(s)] = "/" /\ s[Len(s) - 1] = "/"

StartsWithTwoSlashes(s) == Len(s) >= 2 /\ s[1] = "/" /\ s[2] = "/"

\* C3 as stated: for every non-empty endpoint path and every request
\* path-and-query the merge has exactly one '/' at the junction, however many
\* slashes the endpoint path ends in and the request path begins with.
C3_Original ==
    (merged.called /\ uri_path(endpoint) # <<>>) =>
        OneSlashJunction(uri_path(endpoint),
                         uri_path_and_query_str(merged.uri), merged.pq)

\* C3 amended: the merge has exactly one '/' at the junction when the endpoint
\* path ends in at most one '/' and the request path begins with at most one.
C3_OneSlash ==
    LET e == uri_path(endpoint) IN
    /\ (merged.called /\ e # <<>>
          /\ ~EndsInTwoSlashes(e)
          /\ ~StartsWithTwoSlashes(uri_path_and_query_str(merged.uri))) =>
        OneSlashJunction(e, uri_path_and_query_str(merged.uri), merged.pq)
    /\ (Succeeded /\ ~EndsInTwoSlashes(e)
          /\ ~StartsWithTwoSlashes(uri_path_and_query_str(last.uri0))) =>
        OneSlashJunction(e, uri_path_and_query_str(last.uri0),
                         uri_path_and_query_str(uri))

C3_Witness ==
    /\ merged.called
    /\ uri_path(endpoint) = S_foo_slash
    /\ uri_path_and_query_str(merged.uri) = S_bar
    /\ merged.pq = S_foo_bar

\* the endpoint without its query
StripQuery(ep) ==
    [ep EXCEPT !.pq = IF QueryIndex(@) = 0 THEN @
                      ELSE SubSeq(@, 1, QueryIndex(@) - 1)]

\* C4: for an endpoint with a query, apply_endpoint returns what it returns
\* for the endpoint without the query and leaves the same request Uri; on
\* success the query of the request Uri is the request's own query (none when
\* it had none), nothing of the endpoint's query is in it, and the warning was
\* logged.
C4_EndpointQueryDropped ==
    (Applied /\ endpoint_query(endpoint).some) =>
        LET r == apply_endpoint(last.uri0, StripQuery(endpoint), last.arg) IN
        /\ last.res = r.res
        /\ uri = r.uri
        /\ ~r.warned
        /\ last.res.kind = "Ok" =>
             /\ last.warned
             /\ pq_query(uri.pq) = pq_query(uri_path_and_query_str(last.uri0))
             /\ \A i \in 1..Len(uri.pq) : uri.pq[i] # "q"

C4_Witness ==
    /\ Succeeded
    /\ endpoint_query(endpoint) = Some(<<"q">>)
    /\ last.warned
    /\ pq_query(last.uri0.pq) = Some(<<"x">>)
    /\ pq_query(uri.pq) = Some(<<"x">>)

\* C5 as stated: a second apply_endpoint with the same endpoint and prefix,
\* after a first that succeeded, succeeds and leaves the request Uri as the
\* first call left it.
C5_Original ==
    [][(calls' = calls + 1 /\ Succeeded /\ last'.arg = last.arg) =>
          (last'.res.kind = "Ok" /\ uri' = uri)]_vars

\* C5 amended: the same, for an endpoint without a base path (its path is "/").
C5_IdempotentNoBasePath ==
    [][(calls' = calls + 1 /\ Succeeded /\ last'.arg = last.arg
          /\ uri_path(endpoint) = <<"/">>) =>
          (last'.res.kind = "Ok" /\ uri' = uri)]_vars

C5_Witness ==
    /\ calls = 2
    /\ Succeeded
    /\ last.arg.some
    /\ uri_path(endpoint) = <<"/">>
    /\ uri = last.uri0
    /\ uri.pq = <<"/", "b", "?", "x">>

\* C6 as stated: for an endpoint without a scheme apply_endpoint fails with
\* the missing-scheme cause and no other.
C6_Original ==
    (Applied /\ endpoint.scheme = "") => last.res = endpoint_must_have_scheme

\* C6 amended: for an endpoint without a scheme apply_endpoint never succeeds;
\* it fails with the missing-scheme cause when prefix + endpoint authority
\* parses as an authority, and with the failed-to-construct-authority cause
\* when it does not (an endpoint without authority and no prefix).
C6_MissingScheme ==
    (Applied /\ endpoint.scheme = "") =>
        /\ last.res.kind # "Ok"
        /\ IsAuthority(ComposedAuthority) =>
             last.res = endpoint_must_have_scheme
        /\ ~IsAuthority(ComposedAuthority) =>
             last.res.kind = "FailedToConstructAuthority"

C6_Witness ==
    /\ Applied
    /\ endpoint.scheme = ""
    /\ endpoint.authority = <<>>
    /\ last.arg.some
    /\ last.res = endpoint_must_have_scheme

\* C7 as stated: an accepted prefix followed by a valid authority parses as an
\* authority, so apply_endpoint with a constructed prefix and an endpoint that
\* has an authority never fails at the composed-authority stage.
C7_Original ==
    (Applied /\ last.arg.some /\ endpoint.authority # <<>>) =>
        /\ IsAuthority(last.arg.v \o endpoint.authority)
        /\ last.res.kind # "FailedToConstructAuthority"

HasBracketOrColon(s) == \E i \in 1..Len(s) : s[i] \in {":", "[", "]"}

\* C7 amended: the same for an accepted prefix that holds no ':', '[' or ']'.
C7_PrefixComposes ==
    (Applied /\ last.arg.some /\ endpoint.authority # <<>>
       /\ ~HasBracketOrColon(last.arg.v)) =>
        /\ IsAuthority(last.arg.v \o endpoint.authority)
        /\ last.res.kind # "FailedToConstructAuthority"

C7_Witness ==
    /\ Succeeded
    /\ last.arg = Some(<<"@", "a">>)
    /\ endpoint.authority = Ipv6Loopback
    /\ uri.authority = <<"@", "a">> \o Ipv6Loopback

\* C8: EndpointPrefix::new accepts a string exactly when it parses as an
\* authority; a rejected string (the empty one included) comes back in the
\* error and no prefix is built; an accepted one is what as_str returns, in
\* every later state.
C8_PrefixConstruction ==
    /\ prefixRes = NotCalled => prefix = None
    /\ prefixRes # NotCalled =>
         /\ prefixRes.kind \in {"Ok", "FailedToConstructAuthority"}
         /\ prefixRes.kind = "Ok" <=> IsAuthority(input)
         /\ input = <<>> => prefixRes.kind # "Ok"
    /\ prefixRes.kind = "Ok" => (prefix.some /\ as_str(prefix) = input)
    /\ prefixRes.kind = "FailedToConstructAuthority" =>
         (prefix = None /\ prefixRes.authority = input)

C8_Witness ==
    /\ prefixRes.kind = "Ok"
    /\ calls = MaxCalls
    /\ Succeeded
    /\ as_str(prefix) = input
    /\ Len(input) = MaxPrefixLen

ApplyErrorKinds ==
    {"FailedToConstructAuthority", "EndpointMustHaveScheme",
     "FailedToConstructUri"}

\* C9: a call of apply_endpoint that returns an error leaves the request Uri
\* as it was; every call leaves the endpoint and the prefix as they were and
\* returns Ok or one of the three errors.
C9_WriteOnlyOnSuccess ==
    [][calls' = calls + 1 =>
          /\ endpoint' = endpoint
          /\ prefix' = prefix
          /\ last'.res.kind \in ApplyErrorKinds \cup {"Ok"}
          /\ last'.res.kind # "Ok" => uri' = uri]_vars

C9_Witness ==
    /\ Applied
    /\ last.res = endpoint_must_have_scheme
    /\ last.arg.some
    /\ last.uri0.scheme = "http"
    /\ uri = last.uri0

====
